---- MODULE Spec2Model ----
(***************************************************************************)
(* Model of the Redis client of crawlab-db (redis/redis.go): the           *)
(* distributed lock (Lock / UnLock over SET NX PX, GET, DEL) and the list  *)
(* queue (RPush / LPush / LPop / BRPop).                                   *)
(*                                                                         *)
(* The remote store is modelled by what the commands do to one key; every  *)
(* c.Do(...) round trip is one atomic step of the store, and a handler     *)
(* that makes two round trips (UnLock: GET then DEL) is two steps, so      *)
(* other callers and the clock can run in between.                         *)
(***************************************************************************)
EXTENDS Integers, Sequences, FiniteSets, TLC

\* ------------------------------------------------------------------ bounds
\* Number of push commands modelled.
MaxPushes == 2
\* Number of clock ticks modelled.
MaxTicks == 6
\* Milliseconds the clock advances per tick.
TickMs == 15000

\* ------------------------------------------------------- program constants
\* PX argument of the SET in Redis.Lock, in milliseconds.
LockExpiryMs == 30000
\* b.MaxInterval = 20 * time.Second, in milliseconds.
MaxIntervalMs == 20000
\* backoff.NewExponentialBackOff(): the first interval and the time after
\* which the policy stops, in milliseconds.
InitialIntervalMs == 500
MaxElapsedTimeMs == 900000
\* redis.DialReadTimeout(time.Second*600), in milliseconds.
ReadTimeoutMs == 600000
\* Documents inserted into the collection, at most.
MaxDocs == 3
\* Skip and Limit of a FindOptions value range over 0..MaxPage.
MaxPage == 3

\* ------------------------------------------------------------ small domains
Callers == {"A", "B"}
NoCaller == "-"

\* Lock names are strings; a string is a sequence of characters so that
\* strings.ReplaceAll can be computed character by character.
Job5 == <<"j", ":", "5">>
LockNames == {Job5}
\* Further names: one that differs from Job5 only in the separator, one that
\* shares nothing with it.
Job5Dash == <<"j", "-", "5">>
Job7 == <<"j", ":", "7">>
AllNames == {Job5, Job5Dash, Job7}
\* The names each caller locks and unlocks when several names are in use:
\* one caller writes the job's name with ':', the other with '-'.
NamesOf(c) == IF c = "A" THEN {Job5, Job7} ELSE {Job5Dash, Job7}

\* Outcome of one round trip on the borrowed connection:
\*   "ok"    the store ran the command and the reply arrived,
\*   "fail"  the command never reached the store (dial or write error),
\*   "lost"  the store ran the command, the reply did not arrive (read error).
Net == {"ok", "fail", "lost"}

\* Queue names and queue entries.
JobQueue == <<"q">>
Collections == {JobQueue}
Values == {"a", "b"}
\* timeout arguments of BRPop, in seconds
Timeouts == {0, 1}

\* Elements of a MEMORY STATS reply, at most.
MaxReply == 3

\* In the runs that wait to the millisecond, blocking calls begin within this
\* time of the start.
WaitSlackMs == 2000

\* Round trips of one HScan call, at most.
MaxTrips == 3

\* Entries in one HSCAN page, at most.
MaxPageLen == 2

\* The fields and the values of the hash; a value may be the empty string.
Fields == {"f", "g"}
HashValues == {"", "x"}

\* FindOptions.Sort: nil, or a sort document on the insertion order.
Sorts == {"nil", "asc", "desc"}

\* BRPop timeouts on both sides of the connection's read timeout.
WaitTimeouts == {0 - 1} \cup Timeouts \cup {601}

StartMs == TickMs
MaxTime == StartMs + MaxTicks * TickMs

VARIABLES
  now,      \* wall clock, milliseconds
  store,    \* the lock keys of the remote store: key -> entry
  call,     \* per caller: the UnLock call in flight, if any
  tok,      \* per caller and name: the token its last successful Lock returned
  last,     \* the last call that returned: what the caller saw, what was logged
  active,   \* connections borrowed from the pool and not yet closed
  writer,   \* history: per key, the caller whose SET wrote the stored value
  held,     \* history: <<caller, key>> pairs of successful Locks whose key no DEL has removed
  expired,  \* history: some key has been removed by TTL expiry
  wroteAs,  \* history: per key, the lock name whose Lock wrote the stored value
  lists,    \* the list keys of the remote store: collection -> sequence, head first
  blocked,  \* callers blocked in BRPOP, in the order they blocked
  pushed,   \* history: the values the store appended, in order
  popped,   \* history: the values the store handed out, in order, with the command
  began,    \* per caller blocked in BRPop: when the call began, its timeout argument
  docs,       \* the documents of the mongo collection, in insertion order
  findOpts,   \* the opts argument of the last Col.Find
  driverOpts, \* the options.FindOptions that Find handed to the driver
  cur,        \* the documents the cursor of the last Find delivers
  values,     \* the reply of the last MEMORY STATS command
  stats,      \* the mapping the last MemoryStats built
  statsErr,   \* how the last MemoryStats ended: "nil", an error, or "panic"
  hash,       \* the hash of the remote store: its entries in iteration order
  scans,      \* per caller: the HScan call in flight, if any
  hret,       \* the last hash call that returned, with what the caller got
  inop,       \* per caller: the operation it is in, its round trips, its last reply
  exit,       \* the way the last operation that returned left: its exit path
  reachable,  \* the store answers probes
  gate        \* InitRedis: where it is, its backoff policy, what it returned

lockVars == <<store, tok, writer, held, expired, wroteAs>>
queueVars == <<lists, blocked, pushed, popped, began>>
coreVars == <<now, store, call, tok, last, active, writer, held, expired, wroteAs,
              lists, blocked, pushed, popped, began>>
findVars == <<docs, findOpts, driverOpts, cur>>
statsVars == <<values, stats, statsErr>>
hashVars == <<hash, scans, hret>>
poolVars == <<inop, exit>>
gateVars == <<reachable, gate>>
extVars == <<findVars, statsVars, hashVars, poolVars, gateVars>>
vars == <<coreVars, extVars>>

\* ------------------------------------------------------------ pure helpers

\* strings.ReplaceAll(lockKey, ":", "-")
ReplaceColon(s) == [i \in 1..Len(s) |-> IF s[i] = ":" THEN "-" ELSE s[i]]

\* Mutant: the name is left out of the key.
getLockKeyWithoutName(lockKey) == <<"nodes:lock:">>

\* Redis.getLockKey
getLockKey(lockKey) == <<"nodes:lock:">> \o ReplaceColon(lockKey)

Keys == {getLockKey(n) : n \in AllNames}

\* time.Now().Unix(): whole seconds of the millisecond clock
Unix(ms) == ms \div 1000

Absent == [present |-> FALSE, val |-> 0, expireAt |-> 0]

\* Mutant: the NX option is dropped, the SET always writes.
SetPXWithoutNX(s, key, v, px, t) ==
  [store |-> [s EXCEPT ![key] = [present |-> TRUE, val |-> v, expireAt |-> t + px]],
   reply |-> "OK"]

\* Mutant: a refused SET still renews the expiry of the stored key.
SetNXRenewsTTL(s, key, v, px, t) ==
  IF s[key].present
    THEN [store |-> [s EXCEPT ![key].expireAt = t + px], reply |-> "nil"]
    ELSE [store |-> [s EXCEPT ![key] = [present |-> TRUE, val |-> v, expireAt |-> t + px]],
          reply |-> "OK"]

\* SET key v NX PX px at time t: writes only when the key is absent.
\* reply "OK" when written, "nil" when the key existed.
SetNXPX(s, key, v, px, t) ==
  IF s[key].present
    THEN [store |-> s, reply |-> "nil"]
    ELSE [store |-> [s EXCEPT ![key] = [present |-> TRUE, val |-> v, expireAt |-> t + px]],
          reply |-> "OK"]

\* Mutant: a nil reply is read as the integer 0 without an error.
GetInt64NilAsZero(s, key, net) ==
  IF net # "ok" THEN [v |-> 0, err |-> "transport"]
  ELSE IF ~s[key].present THEN [v |-> 0, err |-> "nil"]
  ELSE [v |-> s[key].val, err |-> "nil"]

\* redis.Int64(c.Do("GET", key)): the stored integer, ErrNil for a nil reply
\* (key absent), the transport error when the round trip failed.
GetInt64(s, key, net) ==
  IF net # "ok" THEN [v |-> 0, err |-> "transport"]
  ELSE IF ~s[key].present THEN [v |-> 0, err |-> "ErrNil"]
  ELSE [v |-> s[key].val, err |-> "nil"]

\* Mutant: the ownership check is skipped.
ValueDiffSkipped(getValue, value) == FALSE

\* if getValue != value
ValueDiff(getValue, value) == getValue # value

\* Mutant: the DEL replies but leaves the key in place.
DelKeyKeeps(s, key) ==
  [store |-> s,
   reply |-> IF s[key].present THEN 1 ELSE 0]

\* DEL key: removes the key whatever its value; replies the number removed.
DelKey(s, key) ==
  [store |-> [s EXCEPT ![key] = Absent],
   reply |-> IF s[key].present THEN 1 ELSE 0]

\* Mutant: the key is stored without a TTL, nothing ever expires.
ExpireNever(s, t) == s

\* Keys whose TTL has elapsed at time t are gone.
ExpireAt(s, t) ==
  [k \in DOMAIN s |-> IF s[k].present /\ s[k].expireAt <= t THEN Absent ELSE s[k]]

\* RPUSH key v: appends at the tail; replies the new length.
RPushCmd(l, v) == [list |-> Append(l, v), reply |-> Len(l) + 1]

\* Mutant: LPush sends LPUSH, which puts the value at the head.
LPushPrepends(l, v) == [list |-> <<v>> \o l, reply |-> Len(l) + 1]

\* The command Redis.LPush sends: c.Do("RPUSH", collection, value).
LPushCmd(l, v) == RPushCmd(l, v)

\* Mutant: the pop takes the tail of the list (RPOP).
LPopFromTail(l) ==
  IF l = <<>> THEN [list |-> l, nil |-> TRUE, reply |-> ""]
  ELSE [list |-> SubSeq(l, 1, Len(l) - 1), nil |-> FALSE, reply |-> l[Len(l)]]

\* LPOP key: removes and replies the head; a nil reply when the list is empty.
LPopCmd(l) ==
  IF l = <<>> THEN [list |-> l, nil |-> TRUE, reply |-> ""]
  ELSE [list |-> Tail(l), nil |-> FALSE, reply |-> Head(l)]

\* BRPOP key timeout on a list that has entries: removes and replies the tail.
BRPopCmd(l) == [list |-> SubSeq(l, 1, Len(l) - 1), reply |-> l[Len(l)]]

\* if timeout <= 0 { timeout = 60 }
EffectiveTimeout(timeout) == IF timeout <= 0 THEN 60 ELSE timeout

\* A caller's call in flight: value holds an integer (token, deadline), str a
\* queue entry.
InCall(pc, n, v, x) == [pc |-> pc, name |-> n, value |-> v, str |-> x]

Idle == InCall("idle", <<>>, 0, "")

\* No blocking call of the caller is in flight.
NotBegun == [at |-> 0, timeout |-> 0]

\* What a call handed back: value is the int64 result (or the token
\* presented), str the string result, err the error, log the line logged.
Returned(op, c, n, v, e, l) ==
  [op |-> op, caller |-> c, name |-> n, value |-> v, str |-> "", err |-> e, log |-> l]

ReturnedStr(op, c, n, x, e) ==
  [op |-> op, caller |-> c, name |-> n, value |-> 0, str |-> x, err |-> e, log |-> ""]

\* A *FindOptions argument: nil, or a struct of Skip, Limit and Sort.
FindOptionsValues ==
  [nil : {FALSE}, Skip : 0..MaxPage, Limit : 0..MaxPage, Sort : Sorts]

NilOpts == [nil |-> TRUE, Skip |-> 0, Limit |-> 0, Sort |-> "nil"]

\* A *int64 field of the driver's options: nil, or a pointer to v.
NilPtr == [set |-> FALSE, v |-> 0]
Ptr(v) == [set |-> TRUE, v |-> v]

\* _opts := &options.FindOptions{}
NoDriverOpts == [Skip |-> NilPtr, Limit |-> NilPtr, Sort |-> "nil"]

\* The three ifs of Col.Find, in order, on _opts.
TranslateOpts(opts) ==
  IF opts.nil THEN NoDriverOpts
  ELSE LET o1 == IF opts.Skip # 0
                   THEN [NoDriverOpts EXCEPT !.Skip = Ptr(opts.Skip)]
                   ELSE NoDriverOpts
           o2 == IF opts.Limit # 0
                   THEN [o1 EXCEPT !.Skip = Ptr(opts.Limit)]
                   ELSE o1
       IN IF opts.Sort # "nil" THEN [o2 EXCEPT !.Sort = opts.Sort] ELSE o2

Reverse(l) == [i \in 1..Len(l) |-> l[Len(l) + 1 - i]]

Min(a, b) == IF a <= b THEN a ELSE b

\* col.c.Find(ctx, query, _opts): the driver sorts, skips, then limits.
DriverFind(d, o) ==
  LET sorted == IF o.Sort = "desc" THEN Reverse(d) ELSE d
      from == IF o.Skip.set THEN o.Skip.v + 1 ELSE 1
      rest == SubSeq(sorted, from, Len(sorted))
  IN IF o.Limit.set /\ o.Limit.v # 0
       THEN SubSeq(rest, 1, Min(o.Limit.v, Len(rest)))
       ELSE rest

\* The allow-list of metric names.
MemoryStatsMetrics ==
  {"peak.allocated", "total.allocated", "startup.allocated",
   "overhead.total", "keys.count", "dataset.bytes"}

\* What redigo hands over for one element of a reply: a bulk string ([]byte),
\* an integer (int64) or a nested array ([]interface{}).
Bulk(text) == [kind |-> "bulk", text |-> text, int |-> 0]
Integer(n) == [kind |-> "int", text |-> "", int |-> n]
Array == [kind |-> "array", text |-> "", int |-> 0]

\* The texts of bulk strings that are decimal numbers, with their values.
Decimal == [text \in {"7"} |-> 7]

ReplyElements ==
  {Bulk("keys.count"), Bulk("peak.allocated"), Bulk("db.0"), Bulk("7"),
   Bulk("1.5"), Integer(3), Array}

\* reflect.TypeOf(v).Kind() == reflect.Slice: []byte and []interface{} both.
IsSlice(v) == v.kind \in {"bulk", "array"}

\* redis.String(v, nil) with the error dropped: "" when v is no string.
String(v) == IF v.kind = "bulk" THEN v.text ELSE ""

\* redis.Int64(v, nil): an integer as it is, a bulk string parsed.
Int64(v) ==
  IF v.kind = "int" THEN [v |-> v.int, err |-> "nil"]
  ELSE IF v.kind = "bulk" /\ v.text \in DOMAIN Decimal
         THEN [v |-> Decimal[v.text], err |-> "nil"]
         ELSE [v |-> 0, err |-> "decode"]

EmptyStats == [name \in {} |-> 0]

\* stats[name] = v
Put(m, name, v) == [x \in DOMAIN m \cup {name} |-> IF x = name THEN v ELSE m[x]]

\* The loop of MemoryStats from index i on (1-based), m the mapping so far:
\* values[i+1] past the end of the reply is an index-out-of-range panic.
RECURSIVE StatsLoop(_, _, _)
StatsLoop(vals, i, m) ==
  IF i > Len(vals) THEN [stats |-> m, panic |-> FALSE]
  ELSE IF IsSlice(vals[i]) /\ String(vals[i]) \in MemoryStatsMetrics
         THEN IF i + 1 > Len(vals)
                THEN [stats |-> m, panic |-> TRUE]
                ELSE StatsLoop(vals, i + 1,
                               Put(m, String(vals[i]), Int64(vals[i + 1]).v))
         ELSE StatsLoop(vals, i + 1, m)

RECURSIVE SeqsUpTo(_, _)
SeqsUpTo(S, n) ==
  IF n = 0 THEN {<<>>}
  ELSE LET shorter == SeqsUpTo(S, n - 1)
       IN shorter \cup {Append(q, x) : q \in shorter, x \in S}

\* The replies the store may give to MEMORY STATS.
Replies == SeqsUpTo(ReplyElements, MaxReply)

\* The position of field key in the hash h, 0 when it has no such field.
IndexOf(h, key) ==
  IF \E i \in 1..Len(h) : h[i].key = key
    THEN CHOOSE i \in 1..Len(h) : h[i].key = key
    ELSE 0

\* HSET: the field's value is replaced, or a new entry is added.
HSetCmd(h, key, value) ==
  IF IndexOf(h, key) = 0
    THEN Append(h, [key |-> key, value |-> value])
    ELSE [h EXCEPT ![IndexOf(h, key)].value = value]

\* HDEL: the entry of the field goes.
HDelCmd(h, key) == SelectSeq(h, LAMBDA e : e.key # key)

\* redis.String of the HGET reply: a nil reply decodes to "" with ErrNil.
HGetCmd(h, key) ==
  IF IndexOf(h, key) = 0
    THEN [value |-> "", err |-> "ErrNil"]
    ELSE [value |-> h[IndexOf(h, key)].value, err |-> "nil"]

\* What HGet returns for the decoded reply r: ErrNil is turned into nil.
HGetResult(r) ==
  IF r.err # "nil" /\ r.err # "ErrNil" THEN r ELSE [value |-> r.value, err |-> "nil"]

\* HKEYS: the field names.
HKeysCmd(h) == [i \in 1..Len(h) |-> h[i].key]

\* The items of an HSCAN page: field, value, field, value, ...
Items(page) ==
  [i \in 1..2 * Len(page) |->
     IF i % 2 = 1 THEN page[(i + 1) \div 2].key ELSE page[i \div 2].value]

\* Mutant: the loop takes items[i], the field names.
AppendKeys(results, items) ==
  results \o [j \in 1..Len(items) \div 2 |-> items[2 * j - 1]]

\* for i := 0; i < len(items); i += 2 { results = append(results, items[i+1]) }
AppendValues(results, items) ==
  results \o [j \in 1..Len(items) \div 2 |-> items[2 * j]]

\* An HScan call in flight: the cursor it sends next and its results so far;
\* dirty is history: the hash was modified since the call began.
NoScan == [pc |-> "idle", cursor |-> 0, results |-> <<>>, dirty |-> FALSE]

\* What a hash call returned; hash, sent, cursor and dirty are history: the
\* hash, the last cursor sent, the last cursor the store returned and the
\* dirty mark at that moment.
HReturnedScan(c, list, e, h, sent, cursor, dirty) ==
  [op |-> "HScan", caller |-> c, key |-> "", value |-> "", list |-> list,
   err |-> e, present |-> FALSE, hash |-> h, sent |-> sent, cursor |-> cursor,
   dirty |-> dirty]

HReturned(op, c, key, list, e) ==
  [op |-> op, caller |-> c, key |-> key, value |-> "", list |-> list,
   err |-> e, present |-> FALSE, hash |-> <<>>, sent |-> 0, cursor |-> 0,
   dirty |-> FALSE]

\* The public operations of the client.
Operations ==
  {"Del", "LLen", "RPush", "LPush", "LPop", "HSet", "Ping", "HGet", "HDel",
   "HScan", "HKeys", "BRPop", "Lock", "UnLock", "MemoryStats"}

\* The replies of a round trip, as the operation's control flow sees them.
Replies3 == {"value", "nil", "error"}

NoOp == [op |-> "none", trips |-> 0, reply |-> "none"]

\* The round trips an operation makes at most: UnLock sends GET and then DEL,
\* HScan loops, every other operation sends one command.
TripsOf(op) == IF op = "UnLock" THEN 2 ELSE IF op = "HScan" THEN MaxTrips ELSE 1

\* The operation goes on to another round trip only after a reply that is a
\* value: UnLock after a GET that matched, HScan after a non-zero cursor.
GoesOn(o) == o.trips = 0 \/ (o.trips < TripsOf(o.op) /\ o.reply = "value")

\* The exit paths of an operation after reply: return with nil error, return
\* of redis.ErrNil, return of a traced error; MemoryStats may panic in its
\* loop over the reply.
ExitsOf(op, reply) ==
  IF reply = "error" THEN {"error"}
  ELSE IF reply = "nil" THEN {"nil"}
  ELSE IF op = "MemoryStats" THEN {"success", "panic"} ELSE {"success"}

\* pool.Get(): one more connection is borrowed.
Get(n) == n + 1

\* utils.Close(c): the connection goes back to the pool.
Close(n) == n - 1

\* Mutant: the connection is closed at the end of the success path only.
ClosedOnSuccessOnly(op, out) == out = "success"

\* defer utils.Close(c), right after pool.Get() in every operation: Close runs
\* on every exit, a panic included.
Deferred(op, out) == TRUE

\* InitRedis has not been called.
NoGate ==
  [pc |-> "idle", interval |-> 0, elapsed |-> 0, next |-> 0, err |-> "nil",
   up |-> FALSE]

\* The random value NextBackOff draws around the current interval: one end
\* or the middle of [interval/2, 3*interval/2].
Draws == {"low", "mid", "high"}

RandomValue(interval, draw) ==
  IF draw = "low" THEN interval \div 2
  ELSE IF draw = "mid" THEN interval
  ELSE interval + interval \div 2

\* incrementCurrentInterval: times 1.5, up to MaxInterval.
Increment(interval) ==
  IF interval >= (MaxIntervalMs * 2) \div 3
    THEN MaxIntervalMs
    ELSE (interval * 3) \div 2

\* The value of b.NextBackOff() for a drawn value: Stop (-1) when the time
\* elapsed and the wait would pass MaxElapsedTime.
NextBackOff(elapsed, drawn) ==
  IF elapsed + drawn > MaxElapsedTimeMs THEN 0 - 1 ELSE drawn

\* ------------------------------------------------------------------- Init
Init ==
  /\ now = StartMs
  /\ store = [k \in Keys |-> Absent]
  /\ call = [c \in Callers |-> Idle]
  /\ tok = [c \in Callers |-> [n \in AllNames |-> 0]]
  /\ last = Returned("none", NoCaller, <<>>, 0, "nil", "")
  /\ active = 0
  /\ writer = [k \in Keys |-> NoCaller]
  /\ held = {}
  /\ expired = FALSE
  /\ wroteAs = [k \in Keys |-> <<>>]
  /\ lists = [q \in Collections |-> <<>>]
  /\ blocked = <<>>
  /\ pushed = <<>>
  /\ popped = <<>>
  /\ began = [c \in Callers |-> NotBegun]
  /\ docs = <<>>
  /\ findOpts = NilOpts
  /\ driverOpts = NoDriverOpts
  /\ cur = <<>>
  /\ values = <<>>
  /\ stats = EmptyStats
  /\ statsErr = "none"
  /\ hash = <<>>
  /\ scans = [c \in Callers |-> NoScan]
  /\ hret = HReturned("none", NoCaller, "", <<>>, "nil")
  /\ inop = [c \in Callers |-> NoOp]
  /\ exit = "none"
  /\ reachable = FALSE
  /\ gate = NoGate

\* ---------------------------------------------------------------- actions

\* Redis.Lock(lockKey): one SET NX PX round trip.
\* A Lock is modelled only while the horizon leaves room for its key to expire.
Lock(c, n) ==
  /\ call[c].pc = "idle"
  /\ now + LockExpiryMs + TickMs <= MaxTime
  /\ \E net \in Net :
       LET key == getLockKey(n)
           ts  == Unix(now)
           r   == SetNXPX(store, key, ts, LockExpiryMs, now)
           ran == net # "fail"
           wrote == ran /\ r.reply = "OK"
       IN /\ store' = IF ran THEN r.store ELSE store
          /\ writer' = IF wrote THEN [writer EXCEPT ![key] = c] ELSE writer
          /\ wroteAs' = IF wrote THEN [wroteAs EXCEPT ![key] = n] ELSE wroteAs
          /\ IF net # "ok"
               THEN \* err != nil: return value, trace.TraceError(err)
                    /\ last' = Returned("Lock", c, n, 0, "transport", "")
                    /\ UNCHANGED <<tok, held>>
               ELSE IF r.reply = "nil"
                 THEN \* ok == nil: return 0, ErrAlreadyLocked
                      /\ last' = Returned("Lock", c, n, 0, "ErrAlreadyLocked", "")
                      /\ UNCHANGED <<tok, held>>
                 ELSE \* return ts, nil
                      /\ last' = Returned("Lock", c, n, ts, "nil", "")
                      /\ tok' = [tok EXCEPT ![c][n] = ts]
                      /\ held' = held \cup {<<c, key>>}
  \* pool.Get() ... defer utils.Close(c): borrowed and returned within the call
  /\ UNCHANGED <<now, call, active, expired>>
  /\ UNCHANGED queueVars
  /\ UNCHANGED extVars

\* Redis.UnLock(lockKey, value), first round trip: GET and the ownership check.
\* The caller presents the token its last successful Lock of that name returned.
UnLockGet(c, n) ==
  /\ call[c].pc = "idle"
  /\ \E net \in Net :
       LET key == getLockKey(n)
           value == tok[c][n]
           g == GetInt64(store, key, net)
       IN IF g.err # "nil"
            THEN \* log.Errorf("get lockKey error: ..."); return
                 /\ last' = Returned("UnLock", c, n, value, "nil",
                               IF g.err = "ErrNil" THEN "get lockKey error: redigo: nil returned"
                               ELSE "get lockKey error: transport")
                 /\ UNCHANGED <<call, active>>
            ELSE IF ValueDiff(g.v, value)
              THEN \* log.Errorf("the lockKey value diff: ..."); return
                   /\ last' = Returned("UnLock", c, n, value, "nil", "the lockKey value diff")
                   /\ UNCHANGED <<call, active>>
              ELSE \* goes on to the DEL, the connection stays borrowed
                   /\ call' = [call EXCEPT ![c] = InCall("unlock_del", n, value, "")]
                   /\ active' = active + 1
                   /\ UNCHANGED last
  /\ UNCHANGED <<now, store, tok, writer, held, expired, wroteAs>>
  /\ UNCHANGED queueVars
  /\ UNCHANGED extVars

\* Redis.UnLock, second round trip: DEL, then the deferred Close.
UnLockDel(c) ==
  /\ call[c].pc = "unlock_del"
  /\ \E net \in Net :
       LET n == call[c].name
           key == getLockKey(n)
           r == DelKey(store, key)
           ran == net # "fail"
           removed == ran /\ r.reply = 1
       IN /\ store' = IF ran THEN r.store ELSE store
          /\ writer' = IF removed THEN [writer EXCEPT ![key] = NoCaller] ELSE writer
          /\ held' = IF removed THEN held \ {<<writer[key], key>>} ELSE held
          /\ last' = Returned("UnLock", c, n, call[c].value, "nil",
                        IF net # "ok" THEN "unlock failed, error: transport"
                        ELSE IF r.reply = 0 THEN "unlock failed: key"
                        ELSE "")
  /\ call' = [call EXCEPT ![c] = Idle]
  /\ active' = active - 1
  /\ UNCHANGED <<now, tok, expired, wroteAs>>
  /\ UNCHANGED queueVars
  /\ UNCHANGED extVars

\* Time passes; the store drops the keys whose TTL has elapsed.
Pass(t) ==
  /\ now' = t
  /\ store' = ExpireAt(store, now')
  /\ writer' = [k \in Keys |-> IF store'[k].present THEN writer[k] ELSE NoCaller]
  /\ expired' = (expired \/ store' # store)
  /\ UNCHANGED <<call, tok, last, active, held, wroteAs>>
  /\ UNCHANGED queueVars
  /\ UNCHANGED extVars

Tick ==
  /\ now + TickMs <= MaxTime
  /\ Pass(now + TickMs)

LockNext ==
  \/ \E c \in Callers, n \in LockNames : Lock(c, n)
  \/ \E c \in Callers, n \in LockNames : UnLockGet(c, n)
  \/ \E c \in Callers : UnLockDel(c)
  \/ Tick

Next == LockNext

Spec == Init /\ [][Next]_vars


\* ------------------------------------------------------------ queue actions

\* The blocked callers whose BRPOP timeout has not elapsed, oldest first.
LiveBlocked == SelectSeq(blocked, LAMBDA w : call[w].value > now)

\* What the store does when a push command arrives: it puts the value into
\* the list (l1 is the list the command makes), and when a caller is blocked
\* on the list it serves the oldest one at once with BRPOP's pop.
StorePush(q, v, l1) ==
     /\ pushed' = Append(pushed, v)
     /\ IF LiveBlocked = <<>>
          THEN /\ lists' = [lists EXCEPT ![q] = l1]
               /\ UNCHANGED <<blocked, popped, call>>
          ELSE LET w == Head(LiveBlocked)
                   r == BRPopCmd(l1)
               IN /\ lists' = [lists EXCEPT ![q] = r.list]
                  /\ blocked' = SelectSeq(blocked, LAMBDA x : x # w)
                  /\ popped' = Append(popped, [op |-> "BRPop", value |-> r.reply])
                  /\ call' = [call EXCEPT ![w] = InCall("brpop_served", q, 0, r.reply)]

\* Redis.RPush(collection, value): one RPUSH round trip.
RPush(c, q, v) ==
  /\ call[c].pc = "idle"
  /\ Len(pushed) < MaxPushes
  /\ \E net \in Net :
       /\ IF net = "fail"
            THEN UNCHANGED <<lists, blocked, pushed, popped, call>>
            ELSE StorePush(q, v, RPushCmd(lists[q], v).list)
       /\ last' = ReturnedStr("RPush", c, q, v, IF net = "ok" THEN "nil" ELSE "transport")
  /\ UNCHANGED <<now, active, began>>
  /\ UNCHANGED lockVars
  /\ UNCHANGED extVars

\* Redis.LPush(collection, value): the command it sends is RPUSH.
LPush(c, q, v) ==
  /\ call[c].pc = "idle"
  /\ Len(pushed) < MaxPushes
  /\ \E net \in Net :
       /\ IF net = "fail"
            THEN UNCHANGED <<lists, blocked, pushed, popped, call>>
            ELSE StorePush(q, v, LPushCmd(lists[q], v).list)
       /\ last' = ReturnedStr("LPush", c, q, v, IF net = "ok" THEN "nil" ELSE "transport")
  /\ UNCHANGED <<now, active, began>>
  /\ UNCHANGED lockVars
  /\ UNCHANGED extVars

\* Redis.LPop(collection): one LPOP round trip.
LPop(c, q) ==
  /\ call[c].pc = "idle"
  /\ \E net \in Net :
       LET r == LPopCmd(lists[q])
           ran == net # "fail"
       IN /\ lists' = IF ran THEN [lists EXCEPT ![q] = r.list] ELSE lists
          /\ popped' = IF ran /\ ~r.nil
                         THEN Append(popped, [op |-> "LPop", value |-> r.reply])
                         ELSE popped
          /\ last' = IF net # "ok" THEN ReturnedStr("LPop", c, q, "", "transport")
                     ELSE IF r.nil THEN ReturnedStr("LPop", c, q, "", "ErrNil")
                     ELSE ReturnedStr("LPop", c, q, r.reply, "nil")
  /\ UNCHANGED <<now, call, active, blocked, pushed, began>>
  /\ UNCHANGED lockVars
  /\ UNCHANGED extVars

\* Redis.BRPop(collection, timeout): the BRPOP is sent; when the list has an
\* entry the reply comes at once, otherwise the caller blocks in the store
\* until an entry is pushed or the timeout elapses (the timeouts modelled stay
\* below the connection's 600 s read timeout).
BRPopWithin(c, q, timeout, horizon) ==
  /\ call[c].pc = "idle"
  /\ \E net \in Net :
       LET t == EffectiveTimeout(timeout)
           l == lists[q]
       IN IF net = "fail"
            THEN /\ last' = ReturnedStr("BRPop", c, q, "", "transport")
                 /\ UNCHANGED <<lists, blocked, popped, call, active, began>>
            ELSE IF l # <<>>
              THEN LET r == BRPopCmd(l)
                   IN /\ lists' = [lists EXCEPT ![q] = r.list]
                      /\ popped' = Append(popped, [op |-> "BRPop", value |-> r.reply])
                      /\ last' = IF net = "ok"
                                   THEN ReturnedStr("BRPop", c, q, r.reply, "nil")
                                   ELSE ReturnedStr("BRPop", c, q, "", "transport")
                      /\ UNCHANGED <<blocked, call, active, began>>
              ELSE /\ net = "ok"
                   /\ now + t * 1000 <= horizon
                   /\ call' = [call EXCEPT ![c] = InCall("brpop_wait", q, now + t * 1000, "")]
                   /\ began' = [began EXCEPT ![c] = [at |-> now, timeout |-> timeout]]
                   /\ blocked' = Append(blocked, c)
                   /\ active' = active + 1
                   /\ UNCHANGED <<lists, popped, last>>
  /\ UNCHANGED <<now, pushed>>
  /\ UNCHANGED lockVars
  /\ UNCHANGED extVars

BRPop(c, q, timeout) == BRPopWithin(c, q, timeout, MaxTime)

\* A blocked BRPop whose entry has arrived returns values[1]; when the reply
\* does not arrive the entry, already popped, is lost with the error.
BRPopServed(c) ==
  /\ call[c].pc = "brpop_served"
  /\ \E net \in {"ok", "lost"} :
       last' = IF net = "ok"
                 THEN ReturnedStr("BRPop", c, call[c].name, call[c].str, "nil")
                 ELSE ReturnedStr("BRPop", c, call[c].name, "", "transport")
  /\ call' = [call EXCEPT ![c] = Idle]
  /\ active' = active - 1
  /\ began' = [began EXCEPT ![c] = NotBegun]
  /\ UNCHANGED <<now, lists, blocked, pushed, popped>>
  /\ UNCHANGED lockVars
  /\ UNCHANGED extVars

\* A blocked BRPop whose timeout has elapsed gets the nil reply: ErrNil.
BRPopTimeout(c) ==
  /\ call[c].pc = "brpop_wait"
  /\ call[c].value <= now
  /\ last' = ReturnedStr("BRPop", c, call[c].name, "", "ErrNil")
  /\ call' = [call EXCEPT ![c] = Idle]
  /\ blocked' = SelectSeq(blocked, LAMBDA x : x # c)
  /\ active' = active - 1
  /\ began' = [began EXCEPT ![c] = NotBegun]
  /\ UNCHANGED <<now, lists, pushed, popped>>
  /\ UNCHANGED lockVars
  /\ UNCHANGED extVars

QueueNext ==
  \/ \E c \in Callers, q \in Collections, v \in Values : RPush(c, q, v)
  \/ \E c \in Callers, q \in Collections, v \in Values : LPush(c, q, v)
  \/ \E c \in Callers, q \in Collections : LPop(c, q)
  \/ \E c \in Callers, q \in Collections, t \in Timeouts : BRPop(c, q, t)
  \/ \E c \in Callers : BRPopServed(c)
  \/ \E c \in Callers : BRPopTimeout(c)
  \/ Tick

QueueSpec == Init /\ [][QueueNext]_vars

\* ------------------------------------------------- waits, to the millisecond

\* A blocked BRPop whose connection has read nothing for the read timeout:
\* c.Do fails with an i/o timeout; the closed connection ends the wait.
BRPopReadTimeout(c) ==
  /\ call[c].pc = "brpop_wait"
  /\ began[c].at + ReadTimeoutMs <= now
  /\ last' = ReturnedStr("BRPop", c, call[c].name, "", "transport")
  /\ call' = [call EXCEPT ![c] = Idle]
  /\ blocked' = SelectSeq(blocked, LAMBDA x : x # c)
  /\ active' = active - 1
  /\ began' = [began EXCEPT ![c] = NotBegun]
  /\ UNCHANGED <<now, lists, pushed, popped>>
  /\ UNCHANGED lockVars
  /\ UNCHANGED extVars

\* The latest end of a blocking call with the given timeout argument.
WaitHorizon(timeout) == StartMs + WaitSlackMs + EffectiveTimeout(timeout) * 1000

Waiting == {c \in Callers : call[c].pc = "brpop_wait"}

\* The moments at which a blocked call is due to end.
Deadlines ==
  {call[c].value : c \in Waiting} \cup {began[c].at + ReadTimeoutMs : c \in Waiting}

\* Time passes up to the next deadline; a reply that is due comes first.
Advance ==
  /\ \A c \in Callers : call[c].pc # "brpop_served"
  /\ Deadlines # {}
  /\ \A d \in Deadlines : d > now
  /\ Pass(CHOOSE d \in Deadlines : \A e \in Deadlines : d <= e)

WaitNext ==
  \/ \E c \in Callers, q \in Collections, v \in Values : RPush(c, q, v)
  \/ \E c \in Callers, q \in Collections, t \in WaitTimeouts :
       BRPopWithin(c, q, t, WaitHorizon(t))
  \/ \E c \in Callers : BRPopServed(c)
  \/ \E c \in Callers : BRPopTimeout(c)
  \/ \E c \in Callers : BRPopReadTimeout(c)
  \/ Advance

WaitSpec == Init /\ [][WaitNext]_vars

\* ------------------------------------------------------- several lock names
\* Lock and UnLock called with several names, at one instant of the clock.
NamesNext ==
  \/ \E c \in Callers : \E n \in NamesOf(c) : Lock(c, n)
  \/ \E c \in Callers : \E n \in NamesOf(c) : UnLockGet(c, n)
  \/ \E c \in Callers : UnLockDel(c)

NamesSpec == Init /\ [][NamesNext]_vars

\* Time does not stop: the clock keeps ticking.
LiveSpec == Init /\ [][Next]_vars /\ WF_vars(Tick)

\* -------------------------------------------------------- mongo collection

\* Col.Insert(doc): the collection gets one more document.
Insert ==
  /\ Len(docs) < MaxDocs
  /\ docs' = Append(docs, Len(docs) + 1)
  /\ UNCHANGED <<findOpts, driverOpts, cur>>
  /\ UNCHANGED <<coreVars, statsVars, hashVars, poolVars, gateVars>>

\* Col.Find(query, opts) with a query that matches every document.
Find(opts) ==
  /\ findOpts' = opts
  /\ driverOpts' = TranslateOpts(opts)
  /\ cur' = DriverFind(docs, TranslateOpts(opts))
  /\ UNCHANGED docs
  /\ UNCHANGED <<coreVars, statsVars, hashVars, poolVars, gateVars>>

FindNext ==
  \/ Insert
  \/ \E opts \in FindOptionsValues \cup {NilOpts} : Find(opts)

FindSpec == Init /\ [][FindNext]_vars

\* ------------------------------------------------------------- statistics

\* Redis.MemoryStats(): one MEMORY STATS round trip, then the loop over the
\* reply. A failed round trip leaves values nil: the loop does not run.
MemoryStats(net, reply) ==
  LET vals == IF net = "ok" THEN reply ELSE <<>>
      r == StatsLoop(vals, 1, EmptyStats)
  IN /\ values' = vals
     /\ stats' = r.stats
     /\ statsErr' = IF r.panic THEN "panic"
                    ELSE IF net = "ok" THEN "nil" ELSE "error"
     /\ UNCHANGED <<coreVars, findVars, hashVars, poolVars, gateVars>>

StatsNext ==
  \E net \in {"ok", "fail"}, reply \in Replies : MemoryStats(net, reply)

StatsSpec == Init /\ [][StatsNext]_vars

\* ------------------------------------------------------------------ hashes

\* A modification of the hash marks every HScan in flight.
Modified(h1) ==
  /\ hash' = h1
  /\ scans' = [c \in Callers |->
                 IF scans[c].pc = "scanning" /\ h1 # hash
                   THEN [scans[c] EXCEPT !.dirty = TRUE]
                   ELSE scans[c]]

\* Redis.HSet(collection, key, value)
HSet(c, key, value, net) ==
  /\ scans[c].pc = "idle"
  /\ IF net = "ok"
       THEN /\ Modified(HSetCmd(hash, key, value))
            /\ hret' = HReturned("HSet", c, key, <<>>, "nil")
       ELSE /\ UNCHANGED <<hash, scans>>
            /\ hret' = HReturned("HSet", c, key, <<>>, "error")
  /\ UNCHANGED <<coreVars, findVars, statsVars, poolVars, gateVars>>

\* Redis.HDel(collection, key)
HDel(c, key, net) ==
  /\ scans[c].pc = "idle"
  /\ IF net = "ok"
       THEN /\ Modified(HDelCmd(hash, key))
            /\ hret' = HReturned("HDel", c, key, <<>>, "nil")
       ELSE /\ UNCHANGED <<hash, scans>>
            /\ hret' = HReturned("HDel", c, key, <<>>, "error")
  /\ UNCHANGED <<coreVars, findVars, statsVars, poolVars, gateVars>>

\* Redis.HGet(collection, key); present is history: the hash had the field.
HGet(c, key, net) ==
  /\ scans[c].pc = "idle"
  /\ LET r == IF net = "ok" THEN HGetCmd(hash, key)
                            ELSE [value |-> "", err |-> "error"]
         out == HGetResult(r)
     IN hret' = [HReturned("HGet", c, key, <<>>, out.err) EXCEPT
                   !.value = out.value,
                   !.present = (net = "ok" /\ IndexOf(hash, key) # 0)]
  /\ UNCHANGED <<hash, scans>>
  /\ UNCHANGED <<coreVars, findVars, statsVars, poolVars, gateVars>>

\* Redis.HKeys(collection)
HKeys(c, net) ==
  /\ scans[c].pc = "idle"
  /\ hret' = IF net = "ok"
               THEN HReturned("HKeys", c, "", HKeysCmd(hash), "nil")
               ELSE HReturned("HKeys", c, "", <<>>, "error")
  /\ UNCHANGED <<hash, scans>>
  /\ UNCHANGED <<coreVars, findVars, statsVars, poolVars, gateVars>>

\* Redis.HScan(collection) up to its loop: cursor is 0, results is empty.
HScanBegin(c) ==
  /\ scans[c].pc = "idle"
  /\ scans' = [scans EXCEPT ![c] = [NoScan EXCEPT !.pc = "scanning"]]
  /\ UNCHANGED <<hash, hret>>
  /\ UNCHANGED <<coreVars, findVars, statsVars, poolVars, gateVars>>

\* One turn of HScan's loop: HSCAN with the cursor, the page's values are
\* appended, and the call returns when the cursor that came back is 0. The
\* store delivers the next n entries in its order; it may deliver an empty
\* page, and it returns cursor 0 only when no entry is left. (A cursor past
\* the end, after entries were deleted, finds nothing more.)
HScanStep(c, n, done, net) ==
  /\ scans[c].pc = "scanning"
  /\ LET sc == scans[c]
         pos == IF sc.cursor = 0 THEN 0 ELSE sc.cursor - 1
         page == SubSeq(hash, pos + 1, pos + n)
         cursor == IF done THEN 0 ELSE pos + n + 1
         results == AppendValues(sc.results, Items(page))
     IN IF net # "ok"
          THEN /\ n = 0 /\ ~done
               /\ hret' = HReturnedScan(c, sc.results, "error", hash, sc.cursor, sc.cursor, sc.dirty)
               /\ scans' = [scans EXCEPT ![c] = NoScan]
          ELSE /\ n = 0 \/ pos + n <= Len(hash)
               /\ done => pos + n >= Len(hash)
               /\ IF cursor = 0
                    THEN /\ hret' = HReturnedScan(c, results, "nil", hash, sc.cursor, cursor, sc.dirty)
                         /\ scans' = [scans EXCEPT ![c] = NoScan]
                    ELSE /\ scans' = [scans EXCEPT ![c].cursor = cursor,
                                                   ![c].results = results]
                         /\ UNCHANGED hret
  /\ UNCHANGED hash
  /\ UNCHANGED <<coreVars, findVars, statsVars, poolVars, gateVars>>

HashNext ==
  \/ \E c \in Callers, key \in Fields, value \in HashValues, net \in {"ok", "fail"} :
       HSet(c, key, value, net)
  \/ \E c \in Callers, key \in Fields, net \in {"ok", "fail"} : HDel(c, key, net)
  \/ \E c \in Callers, key \in Fields, net \in {"ok", "fail"} : HGet(c, key, net)
  \/ \E c \in Callers, net \in {"ok", "fail"} : HKeys(c, net)
  \/ \E c \in Callers : HScanBegin(c)
  \/ \E c \in Callers, n \in 0..MaxPageLen, done \in BOOLEAN, net \in {"ok", "fail"} :
       HScanStep(c, n, done, net)

HashSpec == Init /\ [][HashNext]_vars

\* ----------------------------------------------------- connections borrowed

\* c := r.pool.Get(), the first statement of the operation.
OpBegin(c, op) ==
  /\ inop[c].op = "none"
  /\ call[c].pc = "idle"
  /\ inop' = [inop EXCEPT ![c] = [op |-> op, trips |-> 0, reply |-> "none"]]
  /\ active' = Get(active)
  /\ UNCHANGED exit
  /\ UNCHANGED <<now, call, last>>
  /\ UNCHANGED <<lockVars, queueVars, findVars, statsVars, hashVars, gateVars>>

\* c.Do(...): one round trip of the operation.
OpDo(c, reply) ==
  /\ inop[c].op # "none"
  /\ GoesOn(inop[c])
  /\ inop' = [inop EXCEPT ![c].trips = @ + 1, ![c].reply = reply]
  /\ UNCHANGED <<active, exit>>
  /\ UNCHANGED <<now, call, last>>
  /\ UNCHANGED <<lockVars, queueVars, findVars, statsVars, hashVars, gateVars>>

\* The operation leaves on one of its exit paths and its deferred call runs.
OpReturn(c, out) ==
  /\ inop[c].op # "none"
  /\ inop[c].trips > 0
  /\ out \in ExitsOf(inop[c].op, inop[c].reply)
  /\ active' = IF Deferred(inop[c].op, out) THEN Close(active) ELSE active
  /\ inop' = [inop EXCEPT ![c] = NoOp]
  /\ exit' = out
  /\ UNCHANGED <<now, call, last>>
  /\ UNCHANGED <<lockVars, queueVars, findVars, statsVars, hashVars, gateVars>>

PoolNext ==
  \/ \E c \in Callers, op \in Operations : OpBegin(c, op)
  \/ \E c \in Callers, reply \in Replies3 : OpDo(c, reply)
  \/ \E c \in Callers, out \in {"success", "nil", "error", "panic"} : OpReturn(c, out)

PoolSpec == Init /\ [][PoolNext]_vars

\* ----------------------------------------------------------- readiness gate

\* The store becomes reachable or unreachable.
Outage ==
  /\ gate.pc # "returned"
  /\ reachable' = ~reachable
  /\ UNCHANGED gate
  /\ UNCHANGED <<coreVars, findVars, statsVars, hashVars, poolVars>>

\* InitRedis() up to backoff.Retry: a fresh policy.
InitRedis ==
  /\ gate.pc = "idle"
  /\ gate' = [NoGate EXCEPT !.pc = "probe", !.interval = InitialIntervalMs]
  /\ UNCHANGED reachable
  /\ UNCHANGED <<coreVars, findVars, statsVars, hashVars, poolVars>>

\* One turn of Retry: the operation pings; on failure it logs b.NextBackOff(),
\* which moves the policy on, and Retry asks the policy again: it sleeps for
\* the value, or on Stop returns the error, which InitRedis returns.
Probe(draw) ==
  /\ gate.pc = "probe"
  /\ IF reachable
       THEN /\ draw = "mid"
            /\ gate' = [gate EXCEPT !.pc = "returned", !.err = "nil", !.up = TRUE]
       ELSE LET logged == Increment(gate.interval)
                next == NextBackOff(gate.elapsed, RandomValue(logged, draw))
            IN IF next < 0
                 THEN gate' = [gate EXCEPT !.pc = "returned", !.err = "error",
                                           !.up = FALSE,
                                           !.interval = Increment(logged)]
                 ELSE gate' = [gate EXCEPT !.pc = "sleep", !.next = next,
                                           !.interval = Increment(logged)]
  /\ UNCHANGED reachable
  /\ UNCHANGED <<coreVars, findVars, statsVars, hashVars, poolVars>>

\* The timer of Retry fires.
Wake ==
  /\ gate.pc = "sleep"
  /\ gate' = [gate EXCEPT !.pc = "probe", !.elapsed = @ + gate.next, !.next = 0]
  /\ UNCHANGED reachable
  /\ UNCHANGED <<coreVars, findVars, statsVars, hashVars, poolVars>>

GateNext ==
  \/ Outage
  \/ InitRedis
  \/ \E draw \in Draws : Probe(draw)
  \/ Wake

GateSpec == Init /\ [][GateNext]_vars

\* ----------------------------------------------------------- step predicates
\* The step is a Lock call of caller c that returned.
LockReturned(c) ==
  /\ last' # last
  /\ last'.op = "Lock"
  /\ last'.caller = c

\* The step is the GET round trip of an UnLock call of caller c
\* (it either returns at once or goes on to the DEL).
UnLockGetStep(c) ==
  /\ call[c].pc = "idle"
  /\ \/ call'[c].pc = "unlock_del"
     \/ last' # last /\ last'.op = "UnLock" /\ last'.caller = c

\* The step is the DEL round trip of an UnLock call of caller c.
UnLockDelStep(c) ==
  /\ call[c].pc = "unlock_del"
  /\ call'[c].pc = "idle"

HoldersOf(k) == {c \in Callers : <<c, k>> \in held}

\* -------------------------------------------------------------------- claims

\* C1 - Mutual exclusion: as long as no TTL expiry has occurred, at most one
\* caller holds a successful Lock of a key that is still stored, i.e. a
\* second Lock never succeeds while the key an earlier Lock wrote is stored.
C1_MutualExclusion ==
  ~expired => \A k \in Keys : Cardinality(HoldersOf(k)) <= 1

\* A second caller was refused while the first still holds the stored key.
C1_Witness ==
  /\ ~expired
  /\ last.op = "Lock"
  /\ last.err = "ErrAlreadyLocked"
  /\ \E c \in Callers \ {last.caller} :
       /\ HoldersOf(getLockKey(last.name)) = {c}
       /\ store[getLockKey(last.name)].present

\* C2 - Ownership of release (as claimed): the DEL of an UnLock call of
\* caller c never removes a key that a successful Lock of another caller wrote.
C2_OnlyHolderDeletes ==
  [][\A c \in Callers, k \in Keys :
       (UnLockDelStep(c) /\ store[k].present /\ ~store'[k].present)
         => ~(writer[k] # c /\ <<writer[k], k>> \in held)]_vars

\* C3 - Ownership check: an UnLock whose GET reads a value different from the
\* caller's token returns without issuing the DEL; the GET round trip never
\* changes the stored key, its value or its expiry, and the clock stands still.
C3_OwnershipCheck ==
  [][\A c \in Callers :
       UnLockGetStep(c) =>
         /\ store' = store
         /\ now' = now
         /\ call'[c].pc = "unlock_del" =>
              LET k == getLockKey(call'[c].name)
              IN store[k].present /\ store[k].val = call'[c].value]_vars

\* An UnLock returned on a token mismatch and the key is still there, unchanged.
C3_Witness ==
  /\ last.op = "UnLock"
  /\ last.log = "the lockKey value diff"
  /\ call[last.caller].pc = "idle"
  /\ store[getLockKey(last.name)].present
  /\ store[getLockKey(last.name)].val # last.value

\* C4 - TTL liveness: a stored lock key is never older than its 30 s TTL,
\* every stored key eventually becomes absent, and a Lock that finds the key
\* absent is not refused as already locked.
C4_KeyWithinTTL ==
  \A k \in Keys :
    store[k].present =>
      /\ now < store[k].expireAt
      /\ Unix(store[k].expireAt - LockExpiryMs) = store[k].val

C4_TTLLiveness ==
  /\ []C4_KeyWithinTTL
  /\ \A k \in Keys : store[k].present ~> ~store[k].present
  /\ [][\A c \in Callers :
          (LockReturned(c) /\ ~store[getLockKey(last'.name)].present)
            => last'.err # "ErrAlreadyLocked"]_vars

\* A key expired while its holder never released it, and another caller has
\* acquired the lock since.
C4_Witness ==
  /\ expired
  /\ last.op = "Lock"
  /\ last.err = "nil"
  /\ store[getLockKey(last.name)].present
  /\ store[getLockKey(last.name)].val = last.value
  /\ \E c \in Callers \ {last.caller} : c \in HoldersOf(getLockKey(last.name))

\* C5 - Acquire/release round trip: an UnLock that presents the stored token
\* is not turned away by the ownership check; its DEL, once the store runs it,
\* removes the key; and a Lock that finds the key absent and gets its reply
\* succeeds, storing the returned token with the full TTL.
C5_RoundTrip ==
  [][\A c \in Callers :
       /\ (UnLockGetStep(c) /\ call'[c].pc = "idle") =>
            LET k == getLockKey(last'.name)
            IN (store[k].present /\ store[k].val = tok[c][last'.name])
                 => last'.log = "get lockKey error: transport"
       /\ UnLockDelStep(c) =>
            LET k == getLockKey(call[c].name)
            IN /\ last'.log = "" => (store[k].present /\ ~store'[k].present)
               /\ (store[k].present /\ last'.log # "unlock failed, error: transport")
                    => (last'.log = "" /\ ~store'[k].present)
       /\ (LockReturned(c) /\ ~store[getLockKey(last'.name)].present) =>
            LET k == getLockKey(last'.name)
            IN \/ last'.err = "transport"
               \/ /\ last'.err = "nil"
                  /\ last'.value = Unix(now)
                  /\ tok'[c][last'.name] = last'.value
                  /\ store'[k] = [present |-> TRUE, val |-> last'.value,
                                  expireAt |-> now + LockExpiryMs]]_vars

\* After a release that deleted the key, the other caller acquired the lock.
C5_Witness ==
  /\ ~expired
  /\ last.op = "Lock"
  /\ last.err = "nil"
  /\ store[getLockKey(last.name)].present
  /\ HoldersOf(getLockKey(last.name)) = {last.caller}
  /\ \E c \in Callers \ {last.caller} : tok[c][last.name] # 0

\* C6 - Token freshness (as claimed): the token a successful Lock returns
\* differs from every token an earlier successful Lock of that name returned.
C6_TokenFresh ==
  [][\A c \in Callers :
       (LockReturned(c) /\ last'.err = "nil")
         => \A d \in Callers : tok[d][last'.name] # last'.value]_vars

\* C7 - Lock contention outcome: a Lock that finds the key present returns in
\* the same step (no wait, no retry), never succeeds, reports ErrAlreadyLocked
\* with token 0 whenever the store's reply arrives, and leaves the stored
\* token and its expiry unchanged.
C7_Contention ==
  [][\A c \in Callers :
       (LockReturned(c) /\ store[getLockKey(last'.name)].present) =>
         /\ last'.err \in {"ErrAlreadyLocked", "transport"}
         /\ last'.value = 0
         /\ store' = store
         /\ now' = now
         /\ call' = call
         /\ tok' = tok]_vars

\* A Lock was refused and the key it found is stored unchanged.
C7_Witness ==
  /\ last.op = "Lock"
  /\ last.err = "ErrAlreadyLocked"
  /\ last.value = 0
  /\ store[getLockKey(last.name)].present
  /\ call[last.caller].pc = "idle"

\* C8 - Release is best-effort: an UnLock that finds the key absent issues no
\* DEL and changes nothing in the store; no UnLock ever hands an error to its
\* caller, and every UnLock that has started can return.
C8_BestEffortRelease ==
  /\ [][\A c \in Callers :
          /\ (UnLockGetStep(c) /\ ~store[getLockKey(IF call'[c].pc = "idle"
                                     THEN last'.name ELSE call'[c].name)].present)
               => /\ call'[c].pc = "idle"
                  /\ store' = store
                  /\ last'.log \in {"get lockKey error: redigo: nil returned",
                                    "get lockKey error: transport"}
          /\ (UnLockGetStep(c) \/ UnLockDelStep(c)) =>
               (call'[c].pc = "idle" => last'.op = "UnLock" /\ last'.err = "nil")]_vars
  /\ [](\A c \in Callers : call[c].pc = "unlock_del" => ENABLED UnLockDel(c))

\* An UnLock of a key nobody holds returned, and the store is as it was.
C8_Witness ==
  /\ last.op = "UnLock"
  /\ last.log = "get lockKey error: redigo: nil returned"
  /\ last.err = "nil"
  /\ ~store[getLockKey(last.name)].present
  /\ call[last.caller].pc = "idle"

\* The step is an LPop call of caller c that returned.
LPopReturned(c) ==
  /\ last' # last
  /\ last'.op = "LPop"
  /\ last'.caller = c

\* The step is a BRPop call of caller c that found the list non-empty and
\* got its reply at once.
BRPopAtOnce(c) ==
  /\ last' # last
  /\ last'.op = "BRPop"
  /\ last'.caller = c
  /\ last'.err = "nil"
  /\ call[c].pc = "idle"
  /\ lists[last'.name] # <<>>

OnlyLPops == \A i \in 1..Len(popped) : popped[i].op = "LPop"

\* C9 - Queue FIFO: on a queue that starts empty and is popped with LPop
\* only, the k-th value the store hands out is the k-th value pushed and the
\* list holds the values pushed and not yet popped, oldest first; an LPop
\* that returns a value returns the head of the list; an LPop on an empty
\* list returns the empty outcome (ErrNil, no value) and leaves the list empty.
C9_Prefix ==
  OnlyLPops =>
    /\ Len(popped) <= Len(pushed)
    /\ \A i \in 1..Len(popped) : popped[i].value = pushed[i]
    /\ \A q \in Collections : lists[q] = SubSeq(pushed, Len(popped) + 1, Len(pushed))

C9_QueueFIFO ==
  /\ []C9_Prefix
  /\ [][\A c \in Callers :
          LPopReturned(c) =>
            LET q == last'.name
            IN /\ last'.err = "nil" =>
                    /\ lists[q] # <<>>
                    /\ last'.str = Head(lists[q])
                    /\ lists'[q] = Tail(lists[q])
                    /\ popped' = Append(popped, [op |-> "LPop", value |-> last'.str])
               /\ lists[q] = <<>> =>
                    /\ last'.err \in {"ErrNil", "transport"}
                    /\ last'.str = ""
                    /\ lists'[q] = <<>>]_vars

\* Two different values were pushed and the second LPop returned the second.
C9_Witness ==
  /\ Len(pushed) = 2
  /\ pushed[1] # pushed[2]
  /\ Len(popped) = 2
  /\ OnlyLPops
  /\ last.op = "LPop"
  /\ last.err = "nil"
  /\ last.str = pushed[2]

\* C10 - Blocking pop preserves FIFO (as claimed): a BRPop that finds the
\* list non-empty removes and returns the head of the list, the entry LPop
\* would return.
C10_BRPopHead ==
  [][\A c \in Callers :
       BRPopAtOnce(c) =>
         /\ last'.str = LPopCmd(lists[last'.name]).reply
         /\ lists'[last'.name] = LPopCmd(lists[last'.name]).list]_vars


\* Two lock names interfere in this step: a Lock of one name is refused
\* because of a key, or an UnLock of one name removes a key, that a Lock of a
\* name different in the sense Differ wrote.
RefusedByOther(c, Differ(_, _)) ==
  /\ LockReturned(c)
  /\ last'.err = "ErrAlreadyLocked"
  /\ Differ(wroteAs[getLockKey(last'.name)], last'.name)

DeletesOther(c, Differ(_, _)) ==
  /\ UnLockDelStep(c)
  /\ \E k \in Keys : /\ store[k].present
                     /\ ~store'[k].present
                     /\ Differ(wroteAs[k], call[c].name)

\* C18 - Lock independence across names (as claimed): a hold taken under one
\* name never makes a Lock of a different name fail as already locked, and an
\* UnLock of one name never deletes the key of a different name.
C18_NamesIndependent ==
  [][\A c \in Callers :
       /\ ~RefusedByOther(c, LAMBDA n1, n2 : n1 # n2)
       /\ ~DeletesOther(c, LAMBDA n1, n2 : n1 # n2)]_vars

\* C18 amended - the same for two names that still differ once every ':' is
\* replaced by '-'; moreover a Lock or UnLock of one name leaves the key of
\* every such other name as it was.
C18_DistinctKeysIndependent ==
  [][\A c \in Callers :
       /\ ~RefusedByOther(c, LAMBDA n1, n2 : ReplaceColon(n1) # ReplaceColon(n2))
       /\ ~DeletesOther(c, LAMBDA n1, n2 : ReplaceColon(n1) # ReplaceColon(n2))
       /\ \A n \in AllNames :
            (\/ LockReturned(c) /\ last'.name = n
             \/ UnLockGetStep(c) /\ call'[c].pc = "idle" /\ last'.name = n
             \/ UnLockGetStep(c) /\ call'[c].pc = "unlock_del" /\ call'[c].name = n
             \/ UnLockDelStep(c) /\ call[c].name = n)
              => \A m \in AllNames :
                   ReplaceColon(m) # ReplaceColon(n)
                     => store'[getLockKey(m)] = store[getLockKey(m)]]_vars

\* Two callers hold locks of two names at once, and a Lock of the second name
\* was the last call to succeed.
C18_Witness ==
  /\ last.op = "Lock"
  /\ last.err = "nil"
  /\ \E n \in AllNames :
       /\ ReplaceColon(n) # ReplaceColon(last.name)
       /\ store[getLockKey(n)].present
       /\ store[getLockKey(last.name)].present
       /\ wroteAs[getLockKey(n)] = n
       /\ wroteAs[getLockKey(last.name)] = last.name

\* The step is a push call (RPush or LPush) of caller c that returned.
PushReturned(c) ==
  /\ last' # last
  /\ last'.op \in {"RPush", "LPush"}
  /\ last'.caller = c

\* C19 - RPush and LPush both append at the tail: a push of either kind that
\* the store ran while nobody was blocked on the list leaves the list as it
\* was with the value added at the end; until the first pop the list is the
\* sequence of the values pushed, in call order; and the first LPop returns
\* the value pushed first.
C19_CallOrder ==
  popped = <<>> => \A q \in Collections : lists[q] = pushed

C19_PushesAppend ==
  /\ []C19_CallOrder
  /\ [][\A c \in Callers :
          /\ (PushReturned(c) /\ pushed' # pushed /\ blocked = <<>>) =>
               /\ lists'[last'.name] = Append(lists[last'.name], last'.str)
               /\ pushed' = Append(pushed, last'.str)
          /\ (LPopReturned(c) /\ last'.err = "nil" /\ popped = <<>>) =>
               last'.str = pushed[1]]_vars

\* An LPush was the second push, after a different value, and the list holds
\* the two values in call order.
C19_Witness ==
  /\ last.op = "LPush"
  /\ last.err = "nil"
  /\ popped = <<>>
  /\ Len(pushed) = 2
  /\ pushed[1] # pushed[2]
  /\ pushed[2] = last.str
  /\ lists[last.name] = pushed

\* C20 - Col.Find forwards its paging options: a non-zero Skip reaches the
\* driver as the skip count, a non-zero Limit as the limit, so that the cursor
\* delivers at most Limit documents, a non-nil Sort as the sort, and zero or
\* nil fields leave the driver's option unset.
C20_ForwardsOptions ==
  /\ driverOpts.Skip =
       (IF ~findOpts.nil /\ findOpts.Skip # 0 THEN Ptr(findOpts.Skip) ELSE NilPtr)
  /\ driverOpts.Limit =
       (IF ~findOpts.nil /\ findOpts.Limit # 0 THEN Ptr(findOpts.Limit) ELSE NilPtr)
  /\ driverOpts.Sort = (IF findOpts.nil THEN "nil" ELSE findOpts.Sort)
  /\ (~findOpts.nil /\ findOpts.Limit # 0) => Len(cur) <= findOpts.Limit

\* The name positions of a flat reply of names and values interleaved.
NamePositions(vals) == {i \in 1..Len(vals) : i % 2 = 1}

\* The element at position i is a recognized metric name.
Recognized(vals, i) ==
  vals[i].kind = "bulk" /\ vals[i].text \in MemoryStatsMetrics

\* C16 - Statistics extraction: MemoryStats completes for every reply; the
\* keys of its mapping are allow-listed names that occur in the reply in a
\* name position, every allow-listed name in a name position followed by an
\* integer is a key, and each key maps to the integer value of the element
\* right after such an occurrence.
C16_StatsExtraction ==
  statsErr # "none" =>
    /\ statsErr # "panic"
    /\ DOMAIN stats \subseteq MemoryStatsMetrics
    /\ \A name \in DOMAIN stats :
         \E i \in NamePositions(values) :
           /\ Recognized(values, i)
           /\ values[i].text = name
           /\ i < Len(values)
           /\ Int64(values[i + 1]).err = "nil" => stats[name] = Int64(values[i + 1]).v
    /\ \A i \in NamePositions(values) :
         (Recognized(values, i) /\ i < Len(values) /\ Int64(values[i + 1]).err = "nil")
           => values[i].text \in DOMAIN stats

\* C17 - Graceful degradation: when MemoryStats returns, a recognized name
\* whose following element is never decodable as an integer has no entry in
\* the mapping.
C17_OmitsUndecodable ==
  statsErr = "nil" =>
    \A i \in 1..Len(values) - 1 :
      ( /\ Recognized(values, i)
        /\ \A j \in 1..Len(values) - 1 :
             (Recognized(values, j) /\ values[j].text = values[i].text)
               => Int64(values[j + 1]).err # "nil" )
        => values[i].text \notin DOMAIN stats

\* C13 - Absent-value is distinguishable: what HGet returns for a field the
\* hash does not have differs from what it returns for the same field when
\* the field is present, whatever its value.
C13_AbsentDistinguishable ==
  (hret.op = "HGet" /\ hret.err # "error" /\ ~hret.present) =>
    \A v \in HashValues :
      [value |-> hret.value, err |-> hret.err] #
        HGetResult(HGetCmd(<<[key |-> hret.key, value |-> v]>>, hret.key))

\* How many elements of the sequence l are v.
Count(l, v) == Cardinality({i \in 1..Len(l) : l[i] = v})

\* C15 - Complete scan: HScan starts with cursor 0, goes on while the cursor
\* that comes back is not 0 and returns when it is 0; when the hash was not
\* modified during the call, the result holds the value of every entry
\* exactly once.
C15_ScanResult ==
  (hret.op = "HScan" /\ hret.err = "nil" /\ ~hret.dirty) =>
    /\ Len(hret.list) = Len(hret.hash)
    /\ \A v \in HashValues :
         Count(hret.list, v) = Count([i \in 1..Len(hret.hash) |-> hret.hash[i].value], v)

C15_CompleteScan ==
  /\ []C15_ScanResult
  /\ [][\A c \in Callers :
          /\ (scans[c].pc = "idle" /\ scans'[c].pc = "scanning") =>
               (scans'[c].cursor = 0 /\ scans'[c].results = <<>>)
          /\ (scans[c].pc = "scanning" /\ scans'[c].pc = "scanning"
                /\ scans'[c].cursor # scans[c].cursor) => scans'[c].cursor # 0
          /\ (scans[c].pc = "scanning" /\ scans'[c].pc = "idle"
                /\ hret'.err = "nil") => hret'.cursor = 0]_vars

\* An HScan of a hash with two entries of different values returned after more
\* than one page, the hash untouched meanwhile.
C15_Witness ==
  /\ hret.op = "HScan"
  /\ hret.err = "nil"
  /\ ~hret.dirty
  /\ hret.sent # 0
  /\ Len(hret.hash) = 2
  /\ hret.hash[1].value # hret.hash[2].value
  /\ Len(hret.list) = 2

\* A blocked BRPop of caller c returns in this step.
BRPopWaitEnds(c) ==
  /\ call[c].pc \in {"brpop_wait", "brpop_served"}
  /\ call'[c].pc = "idle"

\* C11 - Bounded blocking: a BRPop that blocked on an empty queue and was
\* served no entry returns the empty outcome (ErrNil) exactly when its
\* effective timeout has elapsed since the call began: t seconds for t > 0,
\* 60 seconds otherwise; one that was served returns before that.
C11_BoundedBlocking ==
  [][\A c \in Callers :
       /\ (BRPopWaitEnds(c) /\ call[c].pc = "brpop_wait") =>
            /\ last'.err = "ErrNil"
            /\ now = began[c].at
                       + (IF began[c].timeout > 0 THEN began[c].timeout ELSE 60) * 1000
       /\ (BRPopWaitEnds(c) /\ call[c].pc = "brpop_served") =>
            now < began[c].at
                    + (IF began[c].timeout > 0 THEN began[c].timeout ELSE 60) * 1000]_vars

\* The callers that are inside an operation.
InOperation == {c \in Callers : inop[c].op # "none"}

\* C12 - Connection release: every operation borrows one connection when it
\* begins and has given it back when it returns, on every exit path; the
\* connections borrowed are as many as the operations in progress, none when
\* every operation has returned.
C12_ConnectionRelease ==
  /\ active = Cardinality(InOperation)
  /\ InOperation = {} => active = 0

\* An operation has just left by a panic, after another had begun and left,
\* and no connection is borrowed.
C12_Witness ==
  /\ exit = "panic"
  /\ InOperation = {}
  /\ active = 0

\* C14 - Readiness gate: InitRedis has returned only after a Ping succeeded:
\* it returns no error, and the store was reachable at its last probe.
C14_ReadinessGate ==
  gate.pc = "returned" => (gate.err = "nil" /\ gate.up)

====
